---------------------------- MODULE Spec2Model ----------------------------
(***************************************************************************)
(* Folder analyzer: the Scanner (modules/engine.py,                        *)
(* analyze_folder_generator) and the Tree Renderer (modules/visualizer.py, *)
(* generate_tree) run over one filesystem snapshot with one filter.        *)
(*                                                                         *)
(* A file name is a sequence of one-character strings, a path is the       *)
(* sequence of the names below the scanned folder (the folder itself is    *)
(* the empty path), and the filesystem maps each existing path to its      *)
(* entry: a file, a directory, or a symbolic link to a directory.          *)
(***************************************************************************)
EXTENDS Integers, Sequences, FiniteSets, TLC

VARIABLES
    args_ext,          \* args.ext: the raw --ext values, <<>> for None
    total_files,       \* main: total_files
    total_size,        \* main: total_size, in base-1024 digits, lowest first
    size_text,         \* main: format_size(total_size) as written to the report
    fs,                \* the filesystem snapshot: path -> entry
    min_size_bytes,    \* filter: minimum size
    allowed_exts,      \* filter: allow-list; {} stands for None (falsy)
    pc,                \* position of the caller: "start" | "tree_built"
    tree_structure,    \* value returned by the top-level generate_tree
    progress_tracker,  \* the dict {'count': n} shared through the recursion
    scan_pc,           \* generator: "idle" | "running" | "done" | "raised"
    walk_stack,        \* os.walk: directories still to visit
    walk_root,         \* os.walk: `root` of the current iteration
    walk_files,        \* os.walk: `files` of the current iteration not yet looped over
    yielded,           \* triples yielded so far by the current generator
    prev_yield         \* <<set of triples of the last finished generator>>, <<>> before

vars == <<args_ext, total_files, total_size, size_text, fs, min_size_bytes, allowed_exts, pc,
          tree_structure, progress_tracker,
          scan_pc, walk_stack, walk_root, walk_files, yielded, prev_yield>>

(***************************************************************************)
(* Bounds.                                                                 *)
(***************************************************************************)
\* file sizes and the minimum size range over 0..MaxSize
MaxSize == 1
\* at most MaxFiles yielded sizes are summed into total_size
MaxFiles == 2

(***************************************************************************)
(* Characters and strings.                                                 *)
(***************************************************************************)
\* code point of a character (the ones the names below use)
Code(c) ==
    CASE c = " " -> 32 [] c = "(" -> 40 [] c = ")" -> 41 [] c = "." -> 46
      [] c = "G" -> 71 [] c = "J" -> 74 [] c = "P" -> 80 [] c = "Z" -> 90
      [] c = "b" -> 98 [] c = "d" -> 100 [] c = "e" -> 101 [] c = "g" -> 103
      [] c = "h" -> 104 [] c = "i" -> 105 [] c = "j" -> 106 [] c = "k" -> 107 [] c = "l" -> 108
      [] c = "n" -> 110 [] c = "o" -> 111 [] c = "p" -> 112 [] c = "s" -> 115
      [] c = "t" -> 116 [] c = "u" -> 117 [] c = "v" -> 118 [] c = "x" -> 120
      [] c = "z" -> 122

\* str.lower() on one character
LowerChar(c) ==
    CASE c = "G" -> "g" [] c = "J" -> "j" [] c = "P" -> "p" [] c = "Z" -> "z"
      [] OTHER -> c

\* str.lower()
lower(s) == [i \in 1..Len(s) |-> LowerChar(s[i])]

\* s < t in Python's (code point, lexicographic) string order
RECURSIVE StrLess(_, _)
StrLess(s, t) ==
    IF t = <<>> THEN FALSE
    ELSE IF s = <<>> THEN TRUE
    ELSE IF Code(Head(s)) # Code(Head(t)) THEN Code(Head(s)) < Code(Head(t))
    ELSE StrLess(Tail(s), Tail(t))

\* a faulty variant of sorted: orders names ignoring case
SortedIgnoringCase(names) ==
    LET RECURSIVE srt(_)
        srt(S) == IF S = {} THEN <<>>
                  ELSE LET m == CHOOSE x \in S :
                                  \A y \in S \ {x} :
                                      \/ StrLess(lower(x), lower(y))
                                      \/ (lower(x) = lower(y) /\ StrLess(x, y))
                       IN <<m>> \o srt(S \ {m})
    IN srt(names)

\* sorted(os.listdir(dir_path)): the names in ascending order
sorted(names) ==
    LET RECURSIVE srt(_)
        srt(S) == IF S = {} THEN <<>>
                  ELSE LET m == CHOOSE x \in S : \A y \in S \ {x} : StrLess(x, y)
                       IN <<m>> \o srt(S \ {m})
    IN srt(names)

\* the sentinel "(no extension)"
NoExtension == <<"(", "n", "o", " ", "e", "x", "t", "e", "n", "s", "i", "o", "n", ")">>

\* os.path.splitext(name)[1]: from the last dot on, "" when there is no dot or
\* when only dots precede the last dot (a leading-dot name such as ".env")
splitext(name) ==
    LET dots == {i \in 1..Len(name) : name[i] = "."}
    IN IF dots = {} THEN <<>>
       ELSE LET last == CHOOSE i \in dots : \A j \in dots : j <= i
            IN IF \A j \in 1..(last - 1) : name[j] = "."
               THEN <<>>
               ELSE SubSeq(name, last, Len(name))

\* the extension both components compute from a file name
file_ext(name) ==
    LET ext == splitext(name)
    IN IF ext # <<>> THEN lower(ext) ELSE NoExtension

(***************************************************************************)
(* The filesystem.                                                         *)
(***************************************************************************)
Root == <<>>

Parent(p) == SubSeq(p, 1, Len(p) - 1)

Basename(p) == p[Len(p)]

\* os.path.join(dir_path, item)
join(dir_path, item) == Append(dir_path, item)

\* the entry a path names once the symbolic links on it are followed
RECURSIVE Resolve(_, _)
Resolve(F, p) ==
    IF p = Root THEN Root
    ELSE LET q == join(Resolve(F, Parent(p)), Basename(p))
         IN IF q \in DOMAIN F /\ F[q].kind = "link" THEN F[q].target ELSE q

\* os.path.islink(p): lstat, the last component is not followed
islink(F, p) ==
    /\ p # Root
    /\ LET q == join(Resolve(F, Parent(p)), Basename(p))
       IN q \in DOMAIN F /\ F[q].kind = "link"

\* os.path.isdir(p) and DirEntry.is_dir(): follow symbolic links
isdir(F, p) ==
    LET r == Resolve(F, p) IN r \in DOMAIN F /\ F[r].kind = "dir"

\* os.listdir(p) / os.scandir(p) succeeds
listable(F, p) == isdir(F, p) /\ F[Resolve(F, p)].list_ok

\* os.listdir(p): the names of the entries of the directory
listdir(F, p) ==
    {Basename(q) : q \in {x \in DOMAIN F : x # Root /\ Parent(x) = Resolve(F, p)}}

\* os.path.getsize(p) returns (does not raise OSError)
getsize_ok(F, p) ==
    LET r == Resolve(F, p) IN r \in DOMAIN F /\ F[r].kind = "file" /\ F[r].stat_ok

\* os.path.getsize(p)
getsize(F, p) == F[Resolve(F, p)].size

(***************************************************************************)
(* The slots of the fixture tree: each may be absent.                      *)
(*     Z.JPG   b.jpg   lnk -> sub   sub/   sub/deep/   sub/deep/.env       *)
(*     sub/e.txt                                                           *)
(***************************************************************************)
N_zjpg == <<"Z", ".", "J", "P", "G">>
N_bjpg == <<"b", ".", "j", "p", "g">>
N_etxt == <<"e", ".", "t", "x", "t">>
N_env  == <<".", "e", "n", "v">>
N_sub  == <<"s", "u", "b">>
N_deep == <<"d", "e", "e", "p">>
N_lnk  == <<"l", "n", "k">>

P_zjpg == <<N_zjpg>>
P_bjpg == <<N_bjpg>>
P_sub  == <<N_sub>>
P_lnk  == <<N_lnk>>
P_etxt == <<N_sub, N_etxt>>
P_deep == <<N_sub, N_deep>>
P_env  == <<N_sub, N_deep, N_env>>

FileSlots == {P_zjpg, P_bjpg, P_etxt, P_env}
DirSlots  == {P_sub, P_deep}
LinkSlots == {P_lnk}
Slots     == FileSlots \cup DirSlots \cup LinkSlots

LinkTarget(p) == P_sub

\* a readable file of each size, and one whose stat fails (a dangling link,
\* a file the user may not stat)
FileEntries ==
    {[kind |-> "file", size |-> s, stat_ok |-> TRUE] : s \in 0..MaxSize}
        \cup {[kind |-> "file", size |-> 0, stat_ok |-> FALSE]}

\* a directory that can be listed, and one that cannot
DirEntries == {[kind |-> "dir", list_ok |-> b] : b \in BOOLEAN}

\* the sets of slots that form a tree: a present slot's parent is a present
\* directory, a present link's target is present
Shapes ==
    {S \in SUBSET Slots :
        /\ \A p \in S : Parent(p) = Root \/ Parent(p) \in S \cap DirSlots
        /\ \A p \in S \cap LinkSlots : LinkTarget(p) \in S}

\* the entries of the slots S, given the files and the directories among them
Tree(S, r, files, dirs) ==
    (Root :> r) @@ files @@ dirs
        @@ [p \in S \cap LinkSlots |-> [kind |-> "link", target |-> LinkTarget(p)]]

AllTrees ==
    UNION {
        {Tree(S, r, files, dirs) :
            r \in DirEntries,
            files \in [S \cap FileSlots -> FileEntries],
            dirs \in [S \cap DirSlots -> DirEntries]}
        : S \in Shapes}

\* p lies below a directory that cannot be listed
Hidden(F, p) ==
    \E n \in 0..(Len(p) - 1) : ~F[SubSeq(p, 1, n)].list_ok

\* Nothing below a directory that cannot be listed is ever looked at: there
\* every shape is kept, with readable files of one size and listable
\* directories.
FileSystems ==
    {F \in AllTrees :
        \A p \in DOMAIN F :
            Hidden(F, p) =>
                \/ F[p].kind = "link"
                \/ F[p] = [kind |-> "file", size |-> MaxSize, stat_ok |-> TRUE]
                \/ F[p] = [kind |-> "dir", list_ok |-> TRUE]}

\* the allow-lists validate_and_normalize_inputs can hand over: None, or a
\* non-empty set of lower-case extensions with their leading dot
E_jpg == <<".", "j", "p", "g">>
E_txt == <<".", "t", "x", "t">>
AllowLists == {{}, {E_jpg}, {E_txt, NoExtension}}

(***************************************************************************)
(* modules/utils.py                                                        *)
(***************************************************************************)
units == <<"B", "KB", "MB", "GB", "TB">>

\* A size is an unbounded Python int; it is held as its base-1024 digits,
\* lowest first and without leading zero digits (<<0>> is zero), so that sizes
\* of gigabytes and terabytes stay within the integers of the checker.
RECURSIVE Base1024(_)
Base1024(n) == IF n < 1024 THEN <<n>> ELSE <<n % 1024>> \o Base1024(n \div 1024)

\* the int held by the digits, for values small enough to compute with
RECURSIVE IntOf(_)
IntOf(digits) ==
    IF digits = <<>> THEN 0 ELSE Head(digits) + 1024 * IntOf(Tail(digits))

\* total_size += size
RECURSIVE add_carry(_, _, _)
add_carry(a, b, carry) ==
    IF a = <<>> /\ b = <<>> THEN (IF carry = 0 THEN <<>> ELSE <<carry>>)
    ELSE LET x == IF a = <<>> THEN 0 ELSE Head(a)
             y == IF b = <<>> THEN 0 ELSE Head(b)
             v == x + y + carry
         IN <<v % 1024>> \o add_carry(IF a = <<>> THEN a ELSE Tail(a),
                                      IF b = <<>> THEN b ELSE Tail(b), v \div 1024)
add(a, b) == add_carry(a, b, 0)

\* 100 times a fraction given by its base-1024 digits, highest first:
\* <<floor, digits of the rest>>
RECURSIVE times100(_)
times100(frac) ==
    IF frac = <<>> THEN <<0, <<>>>>
    ELSE LET t == times100(Tail(frac))
             v == 100 * Head(frac) + t[1]
         IN <<v \div 1024, <<v % 1024>> \o t[2]>>

\* a faulty variant of round_half_even: the digits after the second decimal
\* are cut off
round_truncating(fl, rest) == fl

\* :.2f gives the hundredth nearest to the exact value, a tie going to the
\* even one; rest holds the base-1024 digits of what lies beyond fl hundredths
round_half_even(fl, rest) ==
    LET top   == IF rest = <<>> THEN 0 ELSE Head(rest)
        lower_zero == \A k \in 2..Len(rest) : rest[k] = 0
    IN IF top > 512 \/ (top = 512 /\ ~lower_zero) \/ (top = 512 /\ lower_zero /\ fl % 2 = 1)
       THEN fl + 1 ELSE fl

\* format_size(size_bytes): "0 B", or <<whole, hundredths, unit>> for
\* f"{size_bytes:.2f} {unit}". Dividing by 1024 moves the lowest digit of the
\* integer part to the front of the fraction, which is exact in binary
\* floating point for every size below 2^53.
format_size(size_bytes) ==
    IF size_bytes = <<0>> THEN <<"0 B">>
    ELSE LET RECURSIVE loop(_, _, _)
             \* while size_bytes >= 1024 and unit_index < len(units) - 1
             loop(whole, frac, unit_index) ==
                 IF Len(whole) > 1 /\ unit_index < Len(units)
                 THEN loop(Tail(whole), <<Head(whole)>> \o frac, unit_index + 1)
                 ELSE <<whole, frac, unit_index>>
             r  == loop(size_bytes, <<>>, 1)
             t  == times100(r[2])
             h  == round_half_even(100 * IntOf(r[1]) + t[1], t[2])
         IN <<h \div 100, h % 100, units[r[3]]>>

(***************************************************************************)
(* modules/visualizer.py                                                   *)
(***************************************************************************)
\* The box-drawing characters are written in ASCII: "L" for U+2514, "-" for
\* U+2500, and "|" for U+251C in a connector and U+2502 in a prefix segment.
LastChild   == "L-- "   \* the connector of the last retained child
MiddleChild == "|-- "   \* the connector of every other retained child
BlankSeg    == "    "   \* the prefix segment below a last child
BarSeg      == "|   "   \* the prefix segment below every other child

\* a faulty variant of keep_item: the size bound is exclusive
keep_item_exclusive(F, full_path, item, min_size, allowed) ==
    IF isdir(F, full_path) THEN TRUE
    ELSE IF ~getsize_ok(F, full_path) THEN FALSE
    ELSE IF allowed # {} /\ file_ext(item) \notin allowed THEN FALSE
    ELSE IF getsize(F, full_path) <= min_size THEN FALSE
    ELSE TRUE

\* a faulty variant of keep_item: directories pass the file filter too
keep_item_dirs_filtered(F, full_path, item, min_size, allowed) ==
    IF allowed # {} /\ file_ext(item) \notin allowed THEN FALSE
    ELSE IF isdir(F, full_path) THEN TRUE
    ELSE IF ~getsize_ok(F, full_path) THEN FALSE
    ELSE IF getsize(F, full_path) < min_size THEN FALSE
    ELSE TRUE

\* the body of the pre-filtering loop: whether `item` is appended to
\* filtered_items
keep_item(F, full_path, item, min_size, allowed) ==
    IF isdir(F, full_path) THEN TRUE
    ELSE IF ~getsize_ok(F, full_path) THEN FALSE                        \* except OSError: continue
    ELSE IF allowed # {} /\ file_ext(item) \notin allowed THEN FALSE    \* continue
    ELSE IF getsize(F, full_path) < min_size THEN FALSE                 \* continue
    ELSE TRUE

\* a faulty variant of count_item: only retained items are counted
count_item_retained(tracker, kept) ==
    [tracker EXCEPT !.count = IF kept THEN @ + 1 ELSE @]

\* progress_tracker['count'] += 1, once for each item, before the item is
\* looked at
count_item(tracker, kept) == [tracker EXCEPT !.count = @ + 1]

\* a faulty variant of is_last_item: the position among all the items listed
is_last_of_listing(i, filtered_items, items) ==
    filtered_items[i] = items[Len(items)]

\* is_last = (i == count - 1), i counted from 0; here from 1
is_last_item(i, filtered_items, items) == i = Len(filtered_items)

\* the pre-filtering loop: <<filtered_items, progress_tracker>>
RECURSIVE prefilter(_, _, _, _, _, _, _, _)
prefilter(F, dir_path, items, n, min_size, allowed, filtered_items, tracker) ==
    IF n > Len(items) THEN <<filtered_items, tracker>>
    ELSE LET item == items[n]
             full_path == join(dir_path, item)
             kept == keep_item(F, full_path, item, min_size, allowed)
         IN prefilter(F, dir_path, items, n + 1, min_size, allowed,
                      IF kept THEN Append(filtered_items, item) ELSE filtered_items,
                      count_item(tracker, kept))

\* a faulty variant of listing_failed: the progress counter is reset
listing_failed_reset(tracker) == [tree_str |-> <<>>, tracker |-> [count |-> 0]]

\* except OSError: return ""
listing_failed(tracker) == [tree_str |-> <<>>, tracker |-> tracker]

\* generate_tree(dir_path, prefix, min_size_bytes, allowed_exts, progress_tracker):
\* the string returned, one record for each line, and the tracker as the call
\* leaves it. A line's `path` is not part of the text: it records full_path.
\* a faulty variant of new_prefix_for: the two segments are exchanged
new_prefix_swapped(prefix, is_last) ==
    Append(prefix, IF is_last THEN BarSeg ELSE BlankSeg)

\* new_prefix = prefix + ("    " if is_last else "|   ")
new_prefix_for(prefix, is_last) ==
    Append(prefix, IF is_last THEN BlankSeg ELSE BarSeg)

RECURSIVE generate_tree(_, _, _, _, _, _)
RECURSIVE draw(_, _, _, _, _, _, _, _, _, _)
generate_tree(F, dir_path, prefix, min_size, allowed, tracker) ==
    IF ~listable(F, dir_path) THEN listing_failed(tracker)
    ELSE LET items == sorted(listdir(F, dir_path))
             pre == prefilter(F, dir_path, items, 1, min_size, allowed, <<>>, tracker)
         IN draw(F, dir_path, prefix, min_size, allowed, items, pre[1], 1, <<>>, pre[2])

\* the drawing loop, from the i-th retained item on
draw(F, dir_path, prefix, min_size, allowed, items, filtered_items, i, tree_str, tracker) ==
    IF i > Len(filtered_items) THEN [tree_str |-> tree_str, tracker |-> tracker]
    ELSE LET item == filtered_items[i]
             full_path == join(dir_path, item)
             is_last == is_last_item(i, filtered_items, items)
             connector == IF is_last THEN LastChild ELSE MiddleChild
             suffix == IF ~isdir(F, full_path) /\ getsize_ok(F, full_path)
                       THEN <<format_size(Base1024(getsize(F, full_path)))>>
                       ELSE <<>>
             line == [prefix |-> prefix, connector |-> connector, item |-> item,
                      suffix |-> suffix, path |-> full_path]
             new_prefix == new_prefix_for(prefix, is_last)
             sub == IF isdir(F, full_path)
                    THEN generate_tree(F, full_path, new_prefix, min_size, allowed, tracker)
                    ELSE [tree_str |-> <<>>, tracker |-> tracker]
         IN draw(F, dir_path, prefix, min_size, allowed, items, filtered_items, i + 1,
                 (tree_str \o <<line>>) \o sub.tree_str, sub.tracker)

(***************************************************************************)
(* modules/engine.py                                                       *)
(***************************************************************************)
\* a faulty variant of walk_descends: os.walk(folder_path, followlinks=True)
walk_descends_links(F, new_path) == TRUE

\* os.walk, followlinks=False: a directory entry is walked into unless it is
\* a symbolic link
walk_descends(F, new_path) == ~islink(F, new_path)

\* a faulty variant of scan_file: no try/except around the body
scan_file_unguarded(F, root, file, min_size, allowed) ==
    LET ext == file_ext(file)
        full_path == join(root, file)
    IN IF allowed # {} /\ ext \notin allowed THEN [kind |-> "skip"]
       ELSE IF ~getsize_ok(F, full_path) THEN [kind |-> "raise"]
       ELSE IF getsize(F, full_path) < min_size THEN [kind |-> "skip"]
       ELSE [kind |-> "yield", entry |-> <<full_path, getsize(F, full_path), ext>>]

\* a faulty variant of scan_file: the size filter is dropped
scan_file_any_size(F, root, file, min_size, allowed) ==
    LET ext == file_ext(file)
        full_path == join(root, file)
    IN IF allowed # {} /\ ext \notin allowed THEN [kind |-> "skip"]
       ELSE IF ~getsize_ok(F, full_path) THEN [kind |-> "skip"]
       ELSE [kind |-> "yield", entry |-> <<full_path, getsize(F, full_path), ext>>]

\* the body of `for file in files`: what one file makes the generator do
scan_file(F, root, file, min_size, allowed) ==
    LET ext == file_ext(file)
        full_path == join(root, file)
    IN IF allowed # {} /\ ext \notin allowed THEN [kind |-> "skip"]     \* continue
       ELSE IF ~getsize_ok(F, full_path) THEN [kind |-> "skip"]         \* except OSError: continue
       ELSE IF getsize(F, full_path) < min_size THEN [kind |-> "skip"]  \* continue
       ELSE [kind |-> "yield", entry |-> <<full_path, getsize(F, full_path), ext>>]

\* the sequences that hold each element of S once (the order in which
\* os.scandir hands out the entries is the platform's)
Orders(S) == {q \in [1..Cardinality(S) -> S] : \A x \in S : \E i \in DOMAIN q : q[i] = x}

\* a faulty variant of fresh_generator: the new generator starts from what the
\* previous one left behind
stale_generator(old_yielded) ==
    [walk_stack |-> <<Root>>, walk_files |-> {}, yielded |-> old_yielded]

\* analyze_folder_generator(...) called: a new generator, os.walk at its top
fresh_generator(old_yielded) ==
    [walk_stack |-> <<Root>>, walk_files |-> {}, yielded |-> <<>>]

(***************************************************************************)
(* The state machine.                                                      *)
(***************************************************************************)
Init ==
    /\ args_ext = <<>>
    /\ total_files = 0
    /\ total_size = <<0>>
    /\ size_text = <<>>
    /\ fs \in FileSystems
    /\ min_size_bytes \in 0..MaxSize
    /\ allowed_exts \in AllowLists
    /\ pc = "start"
    /\ tree_structure = <<>>
    /\ progress_tracker = [count |-> 0]
    /\ scan_pc = "idle"
    /\ walk_stack = <<>>
    /\ walk_root = Root
    /\ walk_files = {}
    /\ yielded = <<>>
    /\ prev_yield = <<>>

\* main.py, phase 1: progress_tracker = {'count': 0}; tree_structure =
\* generate_tree(folder_path, "", min_size_bytes, allowed_exts, progress_tracker)
GenerateTreeCall ==
    /\ pc = "start"
    /\ LET r == generate_tree(fs, Root, <<>>, min_size_bytes, allowed_exts, [count |-> 0])
       IN /\ tree_structure' = r.tree_str
          /\ progress_tracker' = r.tracker
    /\ pc' = "tree_built"
    /\ UNCHANGED <<args_ext, total_files, total_size, size_text, fs, min_size_bytes, allowed_exts, scan_pc, walk_stack, walk_root,
                   walk_files, yielded, prev_yield>>

\* main.py, phase 2, and any later call: analyze_folder_generator(folder_path,
\* min_size_bytes, allowed_exts)
ScanCall ==
    /\ pc = "tree_built"
    /\ scan_pc \in {"idle", "done"}
    /\ LET g == fresh_generator(yielded)
       IN /\ walk_stack' = g.walk_stack
          /\ walk_files' = g.walk_files
          /\ yielded' = g.yielded
    /\ walk_root' = Root
    /\ prev_yield' = IF scan_pc = "done" THEN <<{yielded[i] : i \in DOMAIN yielded}>>
                     ELSE prev_yield
    /\ scan_pc' = "running"
    /\ UNCHANGED <<args_ext, total_files, total_size, size_text, fs, min_size_bytes, allowed_exts, pc, tree_structure, progress_tracker>>

\* os.walk resumes: the next directory is taken from its stack
WalkNext ==
    /\ scan_pc = "running"
    /\ walk_files = {}
    /\ walk_stack # <<>>
    /\ LET top == Head(walk_stack)
       IN \/ /\ ~listable(fs, top)        \* scandir fails: the error is ignored
             /\ walk_stack' = Tail(walk_stack)
             /\ UNCHANGED <<walk_root, walk_files>>
          \/ /\ listable(fs, top)
             /\ LET names == listdir(fs, top)
                    dirs == {n \in names : isdir(fs, join(top, n))}
                    nondirs == names \ dirs
                    walked == {n \in dirs : walk_descends(fs, join(top, n))}
                IN /\ walk_root' = top
                   /\ walk_files' = nondirs
                   /\ \E order \in Orders(walked) :
                          walk_stack' = [i \in DOMAIN order |-> join(top, order[i])]
                                            \o Tail(walk_stack)
    /\ UNCHANGED <<args_ext, total_files, total_size, size_text, fs, min_size_bytes, allowed_exts, pc, tree_structure, progress_tracker,
                   scan_pc, yielded, prev_yield>>

\* one turn of `for file in files`
ScanFile ==
    /\ scan_pc = "running"
    /\ \E file \in walk_files :
          LET r == scan_file(fs, walk_root, file, min_size_bytes, allowed_exts)
          IN /\ walk_files' = walk_files \ {file}
             /\ yielded' = IF r.kind = "yield" THEN Append(yielded, r.entry) ELSE yielded
             /\ scan_pc' = IF r.kind = "raise" THEN "raised" ELSE scan_pc
    /\ UNCHANGED <<args_ext, total_files, total_size, size_text, fs, min_size_bytes, allowed_exts, pc, tree_structure, progress_tracker,
                   walk_stack, walk_root, prev_yield>>

\* os.walk is exhausted: the generator returns
ScanEnd ==
    /\ scan_pc = "running"
    /\ walk_files = {}
    /\ walk_stack = <<>>
    /\ scan_pc' = "done"
    /\ UNCHANGED <<args_ext, total_files, total_size, size_text, fs, min_size_bytes, allowed_exts, pc, tree_structure, progress_tracker,
                   walk_stack, walk_root, walk_files, yielded, prev_yield>>

Next == GenerateTreeCall \/ ScanCall \/ WalkNext \/ ScanFile \/ ScanEnd

Spec == Init /\ [][Next]_vars

(***************************************************************************)
(* What the claims speak of.                                               *)
(***************************************************************************)
\* generate_tree has just returned to its caller; no later step changes
\* what it returned or the tracker
TreeReturned == pc = "tree_built" /\ scan_pc = "idle"

\* the generator is exhausted
ScanFinished == scan_pc = "done"

Lines == {tree_structure[i] : i \in DOMAIN tree_structure}

\* the lines drawn for the children of directory D
LinesUnder(D) == {l \in Lines : Parent(l.path) = D}

\* the directories the top-level call and its recursive calls listed
ListedDirs == {D \in {Root} \cup {l.path : l \in Lines} : listable(fs, D)}

\* the names drawn as file lines directly under D
DrawnFiles(D) == {l.item : l \in {x \in LinesUnder(D) : ~isdir(fs, x.path)}}

YieldedSet == {yielded[i] : i \in DOMAIN yielded}

YieldedPaths == {y[1] : y \in YieldedSet}

\* the names of the yielded files whose parent directory is D
YieldedUnder(D) == {Basename(q) : q \in {x \in YieldedPaths : Parent(x) = D}}

\* the filter predicate of the specification, section 4.1
Matches(size, ext) ==
    /\ size >= min_size_bytes
    /\ allowed_exts # {} => ext \in allowed_exts

\* the regular files of the tree
Files == {p \in DOMAIN fs : fs[p].kind = "file"}

\* the files whose metadata can be read: the stat succeeds and every
\* directory above can be listed
Readable == {p \in Files : fs[p].stat_ok /\ ~Hidden(fs, p)}

\* C1: for every directory D that generate_tree lists, the file names drawn
\* directly under D are the names of the files the generator yields with
\* parent directory D.
C1_SameFilesInBothComponents ==
    (pc = "tree_built" /\ ScanFinished) =>
        \A D \in ListedDirs : DrawnFiles(D) = YieldedUnder(D)

\* C2: every yielded triple satisfies the filter: its size is at least
\* min_size_bytes and, when an allow-list is set, its extension is in it.
C2_YieldedSatisfyFilter ==
    \A i \in DOMAIN yielded :
        /\ yielded[i][2] >= min_size_bytes
        /\ allowed_exts # {} => yielded[i][3] \in allowed_exts

\* C2 witness: an allow-list and a positive minimum are set, a file was
\* yielded and other readable files were not.
C2_Witness ==
    /\ ScanFinished
    /\ allowed_exts # {}
    /\ min_size_bytes > 0
    /\ yielded # <<>>
    /\ \E p \in Readable \ YieldedPaths : fs[p].size < min_size_bytes
    /\ \E p \in Readable \ YieldedPaths : file_ext(Basename(p)) \notin allowed_exts

\* C3: a finished call has yielded, exactly once each, the files under the
\* root whose metadata is readable and which pass the filter, and a later
\* call on the same tree yields the same set.
C3_ExhaustiveAndRestartable ==
    ScanFinished =>
        /\ \A i, j \in DOMAIN yielded : yielded[i][1] = yielded[j][1] => i = j
        /\ YieldedPaths = {p \in Readable : Matches(fs[p].size, file_ext(Basename(p)))}
        /\ \A y \in YieldedSet : y = <<y[1], fs[y[1]].size, file_ext(Basename(y[1]))>>
        /\ prev_yield # <<>> => YieldedSet = prev_yield[1]

\* C3 witness: a second call has finished after files at two depths were
\* yielded and another file was filtered out.
C3_Witness ==
    /\ ScanFinished
    /\ prev_yield # <<>>
    /\ \E p, q \in YieldedPaths : Len(p) # Len(q)
    /\ Readable \ YieldedPaths # {}

\* C4: in a listed directory a child that is not a directory is drawn if and
\* only if its size can be read, its extension passes the allow-list and its
\* size is at least min_size_bytes.
C4_FileRetention ==
    TreeReturned =>
        \A D \in ListedDirs : \A n \in listdir(fs, D) :
            LET p == join(D, n)
            IN ~isdir(fs, p) =>
                 ((\E l \in Lines : l.path = p)
                    <=> /\ getsize_ok(fs, p)
                        /\ Matches(getsize(fs, p), file_ext(n)))

\* C4 witness: one directory holds a drawn file of exactly min_size_bytes, an
\* undrawn file one byte smaller and, below it, a file whose size cannot be
\* read.
C4_Witness ==
    /\ TreeReturned
    /\ min_size_bytes > 0
    /\ \E l \in Lines : ~isdir(fs, l.path) /\ getsize(fs, l.path) = min_size_bytes
    /\ \E p \in Readable \ {l.path : l \in Lines} :
          /\ fs[p].size = min_size_bytes - 1
          /\ allowed_exts # {} => file_ext(Basename(p)) \in allowed_exts
    /\ \E p \in Files : ~fs[p].stat_ok /\ Parent(p) \in ListedDirs

\* a directory none of whose children would be retained, or that cannot be
\* listed
NothingRetained(p) ==
    listable(fs, p) =>
        \A n \in listdir(fs, p) :
            /\ ~isdir(fs, join(p, n))
            /\ ~(getsize_ok(fs, join(p, n))
                   /\ Matches(getsize(fs, join(p, n)), file_ext(n)))

\* C5: every directory child of a listed directory has exactly one line,
\* without size suffix; when nothing below it is retained, the next line, if
\* any, is not below it.
C5_DirectoriesAlwaysRetained ==
    TreeReturned =>
        \A D \in ListedDirs : \A n \in listdir(fs, D) :
            LET p == join(D, n)
            IN isdir(fs, p) =>
                 /\ \E i \in DOMAIN tree_structure :
                       /\ tree_structure[i].path = p
                       /\ tree_structure[i].item = n
                       /\ tree_structure[i].suffix = <<>>
                       /\ \A j \in DOMAIN tree_structure :
                             tree_structure[j].path = p => j = i
                       /\ (NothingRetained(p) /\ i < Len(tree_structure)) =>
                             Len(tree_structure[i + 1].path) <= Len(p)
                 /\ NothingRetained(p) => LinesUnder(p) = {}

\* C5 witness: a directory whose only file is filtered out by a set
\* allow-list is drawn, and another line follows it.
C5_Witness ==
    /\ TreeReturned
    /\ allowed_exts # {}
    /\ \E i \in DOMAIN tree_structure :
          LET p == tree_structure[i].path
          IN /\ isdir(fs, p)
             /\ listable(fs, p)
             /\ listdir(fs, p) # {}
             /\ NothingRetained(p)
             /\ i < Len(tree_structure)

\* p is a proper prefix of q: q lies below p
Below(p, q) == Len(p) < Len(q) /\ SubSeq(q, 1, Len(p)) = p

\* the directories reached from the root through directories that can be
\* listed
ListableFromRoot(F) ==
    LET RECURSIVE grow(_)
        grow(S) ==
            LET T == S \cup UNION {{join(d, n) : n \in {m \in listdir(F, d) :
                                                          listable(F, join(d, m))}} : d \in S}
            IN IF T = S THEN S ELSE grow(T)
    IN grow(IF listable(F, Root) THEN {Root} ELSE {})

\* the number of entries, files and directories, of the directories in S
RECURSIVE EntriesOf(_, _)
EntriesOf(F, S) ==
    IF S = {} THEN 0
    ELSE LET d == CHOOSE x \in S : TRUE
         IN Cardinality(listdir(F, d)) + EntriesOf(F, S \ {d})

\* C6: with a fresh counter the final count is the number of entries of all
\* the directories listed, one for each child whether retained or not; it is
\* the count the call without any filter gives (so the same for every
\* filter), and it is at least the number of lines returned.
C6_CountsEveryEntryExamined ==
    TreeReturned =>
        /\ progress_tracker.count = EntriesOf(fs, ListableFromRoot(fs))
        /\ generate_tree(fs, Root, <<>>, 0, {}, [count |-> 0]).tracker = progress_tracker
        /\ Len(tree_structure) <= progress_tracker.count

\* C6 witness: directories at two depths were listed and some of the
\* entries examined were not retained.
C6_Witness ==
    /\ TreeReturned
    /\ \E D \in ListedDirs : Len(D) = 2
    /\ tree_structure # <<>>
    /\ progress_tracker.count > Len(tree_structure) + 1

\* C7: in each directory with a retained child, the retained child that
\* sorts last has the last-child connector and every other retained child
\* the middle-child connector.
C7_LastConnectorOnLastRetained ==
    TreeReturned =>
        \A D \in ListedDirs :
            \A l \in LinesUnder(D) :
                IF \A x \in LinesUnder(D) \ {l} : StrLess(x.item, l.item)
                THEN l.connector = LastChild
                ELSE l.connector = MiddleChild

\* C7 witness: in one directory the entry that sorts last is filtered out
\* and a retained child precedes it; another directory has two retained
\* children.
C7_Witness ==
    /\ TreeReturned
    /\ \E D \in ListedDirs :
          /\ LinesUnder(D) # {}
          /\ \E n \in listdir(fs, D) :
                /\ \A m \in listdir(fs, D) \ {n} : StrLess(m, n)
                /\ \A l \in LinesUnder(D) : l.item # n
    /\ \E D \in ListedDirs : Cardinality(LinesUnder(D)) >= 2

\* C8: the lines of the children of one directory come in ascending order of
\* their names, and the lines below a directory child follow its line
\* directly, before the line of its next sibling.
C8_SortedDepthFirst ==
    TreeReturned =>
        \A i \in DOMAIN tree_structure : \A k \in DOMAIN tree_structure :
            LET a == tree_structure[i]
                b == tree_structure[k]
            IN /\ (i < k /\ Parent(a.path) = Parent(b.path)) => StrLess(a.item, b.item)
               /\ Below(a.path, b.path) =>
                     /\ i < k
                     /\ \A j \in (i + 1)..k : Below(a.path, tree_structure[j].path)

\* C8 witness: an upper-case and a lower-case name are drawn in one
\* directory, and a directory's subtree lines are followed by its sibling.
C8_Witness ==
    /\ TreeReturned
    /\ \E x, y \in Lines :
          /\ Parent(x.path) = Parent(y.path)
          /\ StrLess(x.item, y.item)
          /\ StrLess(lower(y.item), lower(x.item))
    /\ \E i \in DOMAIN tree_structure :
          /\ i + 2 <= Len(tree_structure)
          /\ Below(tree_structure[i].path, tree_structure[i + 1].path)
          /\ \E k \in (i + 2)..Len(tree_structure) :
                Parent(tree_structure[k].path) = Parent(tree_structure[i].path)

\* the tree F with directory d emptied and listable
AsEmpty(F, d) ==
    [p \in {q \in DOMAIN F : ~Below(d, q)} |->
        IF p = d THEN [kind |-> "dir", list_ok |-> TRUE] ELSE F[p]]

\* the directory children of listed directories that cannot be listed
UnlistableChildren ==
    {p \in UNION {{join(D, n) : n \in listdir(fs, D)} : D \in ListedDirs} :
        isdir(fs, p) /\ ~listable(fs, p)}

\* C9: a call on a directory that cannot be listed returns the empty string
\* and leaves the counter alone; below a rendered directory such a directory
\* keeps its line, and the whole result and the counter are those of the
\* tree in which it is an empty directory.
C9_UnlistableDirectoryIsEmpty ==
    TreeReturned =>
        /\ ~listable(fs, Root) => (tree_structure = <<>> /\ progress_tracker = [count |-> 0])
        /\ \A p \in UnlistableChildren :
              LET r == generate_tree(AsEmpty(fs, Resolve(fs, p)), Root, <<>>,
                                     min_size_bytes, allowed_exts, [count |-> 0])
              IN /\ generate_tree(fs, p, <<>>, min_size_bytes, allowed_exts, progress_tracker)
                       = [tree_str |-> <<>>, tracker |-> progress_tracker]
                 /\ \E l \in Lines : l.path = p
                 /\ LinesUnder(p) = {}
                 /\ tree_structure = r.tree_str
                 /\ progress_tracker = r.tracker

\* C9 witness: a subdirectory with entries cannot be listed, its line is
\* followed by the line of a sibling, and a file line precedes it.
C9_Witness ==
    /\ TreeReturned
    /\ \E i \in DOMAIN tree_structure :
          LET p == tree_structure[i].path
          IN /\ p \in UnlistableChildren
             /\ listdir(fs, p) # {}
             /\ i > 1
             /\ i < Len(tree_structure)

\* C9 witness, top-level call: the folder itself cannot be listed although
\* it has entries.
C9_RootWitness ==
    /\ TreeReturned
    /\ ~listable(fs, Root)
    /\ listdir(fs, Root) # {}

\* C10: no exception reaches the consumer, the generator returns only when
\* the walk is exhausted, and a matching file is missing from the result
\* only if its own size cannot be read or it lies below a directory that
\* cannot be listed.
C10_ErrorsSkipOnlyTheFailingItem ==
    /\ scan_pc # "raised"
    /\ ScanFinished => (walk_stack = <<>> /\ walk_files = {})
    /\ ScanFinished =>
          \A q \in Files :
              (Matches(fs[q].size, file_ext(Basename(q))) /\ q \notin YieldedPaths)
                  => (~fs[q].stat_ok \/ Hidden(fs, q))

\* C10 witness: a file whose size cannot be read has a sibling that was
\* yielded, a subdirectory with a file in it cannot be listed, and the
\* generator has returned.
C10_Witness ==
    /\ ScanFinished
    /\ \E q \in Files :
          /\ ~fs[q].stat_ok
          /\ \E y \in YieldedPaths : Parent(y) = Parent(q)
    /\ \E d \in DOMAIN fs :
          /\ d # Root
          /\ fs[d].kind = "dir"
          /\ ~fs[d].list_ok
          /\ ~Hidden(fs, d)
          /\ \E q \in Files : Parent(q) = d

(***************************************************************************)
(* modules/validators.py: the --ext values become the allow-list, then the *)
(* two components run with it.                                             *)
(***************************************************************************)
\* e.startswith('.')
startswith_dot(e) == e # <<>> /\ Head(e) = "."

\* a faulty variant of normalize_ext: the case of the input is kept
normalize_ext_keep_case(e) ==
    IF startswith_dot(e) THEN e ELSE <<".">> \o e

\* e.lower() if e.startswith('.') else f".{e.lower()}"
normalize_ext(e) ==
    IF startswith_dot(e) THEN lower(e) ELSE <<".">> \o lower(e)

\* allowed_extensions = None; if args.ext: allowed_extensions = {...}
validate_exts(ext) ==
    IF ext = <<>> THEN {} ELSE {normalize_ext(ext[i]) : i \in DOMAIN ext}

\* raw --ext values
S_JPG == <<"J", "P", "G">>
S_jpg == <<"j", "p", "g">>
S_dotJPG == <<".", "J", "P", "G">>
S_txt == <<"t", "x", "t">>
RawExtArgs ==
    {<<>>, <<S_JPG>>, <<E_jpg>>, <<S_jpg>>, <<S_dotJPG>>, <<S_txt>>, <<S_JPG, S_txt>>}

\* the trees: photo.JPG, notes (no extension), sub/ and sub/b.jpg
N_photo == <<"p", "h", "o", "t", "o", ".", "J", "P", "G">>
N_notes == <<"n", "o", "t", "e", "s">>
P_photo == <<N_photo>>
P_notes == <<N_notes>>
P_subjpg == <<N_sub, N_bjpg>>
NormFileSlots == {P_photo, P_notes, P_subjpg}
NormShapes ==
    {S \in SUBSET (NormFileSlots \cup {P_sub}) :
        /\ P_photo \in S
        /\ P_subjpg \in S => P_sub \in S}
NormTrees ==
    UNION {
        {Tree(S, [kind |-> "dir", list_ok |-> TRUE], files, dirs) :
            files \in [S \cap NormFileSlots -> FileEntries],
            dirs \in [S \cap {P_sub} -> DirEntries]}
        : S \in NormShapes}

InitNorm ==
    /\ args_ext \in RawExtArgs
    /\ total_files = 0
    /\ total_size = <<0>>
    /\ size_text = <<>>
    /\ fs \in NormTrees
    /\ min_size_bytes \in 0..MaxSize
    /\ allowed_exts = {}
    /\ pc = "args"
    /\ tree_structure = <<>>
    /\ progress_tracker = [count |-> 0]
    /\ scan_pc = "idle"
    /\ walk_stack = <<>>
    /\ walk_root = Root
    /\ walk_files = {}
    /\ yielded = <<>>
    /\ prev_yield = <<>>

\* main.py: ... allowed_exts ... = validate_and_normalize_inputs(raw_args)
ValidateInputs ==
    /\ pc = "args"
    /\ allowed_exts' = validate_exts(args_ext)
    /\ pc' = "start"
    /\ UNCHANGED <<args_ext, total_files, total_size, size_text, fs, min_size_bytes, tree_structure,
                   progress_tracker, scan_pc, walk_stack, walk_root, walk_files, yielded,
                   prev_yield>>

NextNorm ==
    ValidateInputs \/ GenerateTreeCall \/ ScanCall \/ WalkNext \/ ScanFile \/ ScanEnd

SpecNorm == InitNorm /\ [][NextNorm]_vars

\* a raw value without its leading dot, if it has one
Undotted(e) == IF startswith_dot(e) THEN Tail(e) ELSE e

\* the readable files of at least min_size_bytes whose name has no extension
PlainFiles == {p \in Readable : splitext(Basename(p)) = <<>> /\ fs[p].size >= min_size_bytes}

\* C11: each raw --ext value gives the lower-case extension with one leading
\* dot (added when the value lacks it); with "JPG", ".jpg" or "jpg" the file
\* photo.JPG is drawn and yielded, with extension ".jpg"; a file without
\* extension is yielded with the sentinel, and both components keep it under
\* an allow-list that holds the sentinel and drop it under one that does not.
C11_ExtensionNormalization ==
    pc # "args" =>
        /\ args_ext = <<>> => allowed_exts = {}
        /\ args_ext # <<>> =>
              allowed_exts = {<<".">> \o lower(Undotted(args_ext[i])) : i \in DOMAIN args_ext}
        /\ \A x \in allowed_exts : x = lower(x) /\ Head(x) = "." /\ Len(x) > 1
        /\ (args_ext \in {<<S_JPG>>, <<E_jpg>>, <<S_jpg>>} /\ P_photo \in Readable
                /\ fs[P_photo].size >= min_size_bytes) =>
              /\ TreeReturned => \E l \in Lines : l.path = P_photo
              /\ ScanFinished => <<P_photo, fs[P_photo].size, E_jpg>> \in YieldedSet
        /\ \A y \in YieldedSet : splitext(Basename(y[1])) = <<>> => y[3] = NoExtension
        /\ (TreeReturned \/ ScanFinished) =>
              \A p \in PlainFiles :
                  /\ keep_item(fs, p, Basename(p), min_size_bytes, {NoExtension})
                  /\ ~keep_item(fs, p, Basename(p), min_size_bytes, {E_jpg})
                  /\ scan_file(fs, Parent(p), Basename(p), min_size_bytes, {NoExtension})
                        = [kind |-> "yield", entry |-> <<p, fs[p].size, NoExtension>>]
                  /\ scan_file(fs, Parent(p), Basename(p), min_size_bytes, {E_jpg})
                        = [kind |-> "skip"]
                  /\ allowed_exts = {} =>
                        /\ TreeReturned => \E l \in Lines : l.path = p
                        /\ ScanFinished => <<p, fs[p].size, NoExtension>> \in YieldedSet

\* C11 witness: the raw value is "JPG", photo.JPG is drawn and was yielded,
\* and a readable file without extension was filtered out.
C11_Witness ==
    /\ ScanFinished
    /\ args_ext = <<S_JPG>>
    /\ \E l \in Lines : l.path = P_photo
    /\ P_photo \in YieldedPaths
    /\ PlainFiles \ YieldedPaths # {}

(***************************************************************************)
(* main.py: the sizes the generator yields are summed, and the total is    *)
(* written to the report through format_size.                              *)
(***************************************************************************)
\* the sizes a yielded file may have
D_KB == <<0, 1>>                     \* 1024
D_GB == <<0, 0, 0, 1>>               \* 1,073,741,824
D_TB == <<0, 0, 0, 0, 1>>            \* 1024^4
D_PB == <<0, 0, 0, 0, 0, 1>>         \* 1024^5
YieldSizes ==
    {Base1024(n) : n \in {0, 1, 512, 1023, 1029, 1030, 1152, 1536, 1048575, 1048576}}
        \cup {D_KB, D_GB, D_TB, D_PB, <<0, 0, 512>>, <<0, 0, 512, 1>>,
               <<1023, 1023, 1023, 1023>>}

InitFmt ==
    /\ args_ext = <<>>
    /\ total_files = 0
    /\ total_size = <<0>>
    /\ size_text = <<>>
    /\ fs = [p \in {Root} |-> [kind |-> "dir", list_ok |-> TRUE]]
    /\ min_size_bytes = 0
    /\ allowed_exts = {}
    /\ pc = "scanning"
    /\ tree_structure = <<>>
    /\ progress_tracker = [count |-> 0]
    /\ scan_pc = "idle"
    /\ walk_stack = <<>>
    /\ walk_root = Root
    /\ walk_files = {}
    /\ yielded = <<>>
    /\ prev_yield = <<>>

\* for path, size, ext in analyze_folder_generator(...):
\*     total_files += 1; total_size += size
AddYield ==
    /\ pc = "scanning"
    /\ total_files < MaxFiles
    /\ \E size \in YieldSizes :
          total_size' = add(total_size, size)
    /\ total_files' = total_files + 1
    /\ UNCHANGED <<args_ext, size_text, fs, min_size_bytes, allowed_exts, pc, tree_structure,
                   progress_tracker, scan_pc, walk_stack, walk_root, walk_files, yielded,
                   prev_yield>>

\* f.write(f"... Total Size: {format_size(total_size)}\n")
WriteReport ==
    /\ pc = "scanning"
    /\ size_text' = format_size(total_size)
    /\ pc' = "report"
    /\ UNCHANGED <<args_ext, total_files, total_size, fs, min_size_bytes, allowed_exts,
                   tree_structure, progress_tracker, scan_pc, walk_stack, walk_root,
                   walk_files, yielded, prev_yield>>

NextFmt == AddYield \/ WriteReport

SpecFmt == InitFmt /\ [][NextFmt]_vars

\* the number of divisions by 1024 that leave a value of at least 1, at most 4
UnitSteps(digits) == IF Len(digits) - 1 < 4 THEN Len(digits) - 1 ELSE 4

\* the top two base-1024 digits of the value in its unit: 1024 * value, cut
TopTwo(digits) ==
    LET k == UnitSteps(digits)
    IN 1024 * IntOf(SubSeq(digits, k + 1, Len(digits))) + (IF k = 0 THEN 0 ELSE digits[k])

\* C12: format_size(0) is the literal "0 B"; for n > 0 the result has two
\* decimals and the unit reached by dividing by 1024 while the value is at
\* least 1024, from B up to and capped at TB, the number being the value in
\* that unit rounded to the nearest hundredth; 1024 gives "1.00 KB", 1536
\* gives "1.50 KB" and 1,073,741,824 gives "1.00 GB".
C12_FormatSize ==
    pc = "report" =>
        /\ total_size = <<0>> => size_text = <<"0 B">>
        /\ total_size # <<0>> =>
              LET k == UnitSteps(total_size)
                  h == 100 * size_text[1] + size_text[2]
              IN /\ Len(size_text) = 3
                 /\ size_text[2] \in 0..99
                 /\ size_text[3] = units[k + 1]
                 /\ size_text[1] >= 1
                 /\ size_text[3] # "TB" => h <= 102400
                 \* exact, where the arithmetic fits
                 /\ Len(total_size) <= 2 =>
                       LET den == IF k = 0 THEN 1 ELSE 1024
                           d   == 100 * IntOf(total_size) - h * den
                           ad  == IF d < 0 THEN 0 - d ELSE d
                       IN /\ 2 * ad <= den
                          /\ 2 * ad = den => h % 2 = 0
                 \* within one hundredth half of the value cut to two digits
                 /\ k > 0 =>
                       /\ 2048 * h >= 200 * TopTwo(total_size) - 1024
                       /\ 2048 * h <= 200 * (TopTwo(total_size) + 1) + 1024
                 \* 1024 times the size reads the same in the next unit
                 /\ Len(total_size) <= 4 =>
                       format_size(<<0>> \o total_size)
                           = <<size_text[1], size_text[2], units[k + 2]>>
        /\ total_size = D_KB => size_text = <<1, 0, "KB">>
        /\ total_size = Base1024(1536) => size_text = <<1, 50, "KB">>
        /\ total_size = D_GB => size_text = <<1, 0, "GB">>

\* C12 witness: two files of 512 MB were summed and the total of
\* 1,073,741,824 bytes was written as "1.00 GB".
C12_Witness ==
    /\ pc = "report"
    /\ total_files = 2
    /\ total_size = D_GB
    /\ size_text = <<1, 0, "GB">>

\* the entry at path p is the last retained child of its directory: no line
\* of the same directory has a greater name
LastRetained(p) ==
    \A l \in Lines : Parent(l.path) = Parent(p) => ~StrLess(Basename(p), Basename(l.path))

\* C13: the prefix of the lines of a retained directory's children is the
\* prefix of the directory's own line followed by the blank segment if the
\* directory is the last retained child of its parent and by the bar segment
\* otherwise; so a line at depth d has d-1 segments, and segment i is blank
\* exactly when the ancestor at depth i was the last retained child.
C13_PrefixFollowsAncestors ==
    TreeReturned =>
        \A l \in Lines :
            /\ Len(l.prefix) = Len(l.path) - 1
            /\ Len(l.path) > 1 =>
                  \E up \in Lines :
                      /\ up.path = Parent(l.path)
                      /\ l.prefix = up.prefix \o
                            <<IF LastRetained(up.path) THEN BlankSeg ELSE BarSeg>>
            /\ \A i \in 1..(Len(l.path) - 1) :
                  /\ l.prefix[i] \in {BlankSeg, BarSeg}
                  /\ l.prefix[i] = BlankSeg <=> LastRetained(SubSeq(l.path, 1, i))

\* C13 witness: a line at depth 3 below a last child and then a child that is
\* not last, next to a line below a first-level child that is not last.
C13_Witness ==
    /\ TreeReturned
    /\ \E l \in Lines : l.prefix = <<BlankSeg, BarSeg>>
    /\ \E l \in Lines : Len(l.prefix) = 2 /\ l.prefix[1] = BarSeg

=============================================================================
